---- MODULE Spec2Model ----
(***************************************************************************)
(* VideoGrab (KSBMR/VieoDownloader): the App state machine and the         *)
(* analyzeVideo fallback chains, in the versions the repository holds.     *)
(*                                                                         *)
(* Strings of the program are kept as strings.  A substring test of the    *)
(* program (String.includes, RegExp match, new URL) is a table over the    *)
(* sample strings the model draws its inputs from.                         *)
(***************************************************************************)
EXTENDS Integers, Sequences, FiniteSets, TLC

VARIABLES
    appVersion,        \* which App the build holds: "app1", "app2", "p6"
    analyzer,          \* which utils/videoAnalyzer the build holds
    appState,          \* useState<AppState>
    videoInfo,         \* useState<VideoInfo | null>
    error,             \* useState<string>
    downloadProgress,  \* useState<DownloadProgress | null>
    currentUrl,        \* useState<string>
    calls,             \* handleUrlSubmit invocations suspended at `await analyzeVideo(url)`
    loops,             \* handleDownload invocations suspended in the progress loop
    timers,            \* pending 1000 ms completion timers, each with its download's format
    clicked,           \* history: the format of the last link.click()
    justClicked,       \* history: the format of the download button pressed in the last step
    lastUrl,           \* history: the url of the last handleUrlSubmit
    written,           \* history: the last percentage written to downloadProgress
    submits,           \* history: handleUrlSubmit invocations so far
    downloads,         \* history: progress loops started so far
    run                \* one analyzeVideo call observed on its own: input, backends, result

vars == <<appVersion, analyzer, appState, videoInfo, error, downloadProgress,
          currentUrl, calls, loops, timers, clicked, justClicked, lastUrl, written,
          submits, downloads, run>>

appVars == <<appVersion, analyzer, appState, videoInfo, error, downloadProgress,
             currentUrl, calls, loops, timers, clicked, justClicked, lastUrl, written,
             submits, downloads>>

-----------------------------------------------------------------------------
(* Bounds of the model *)

MaxCalls == 2       \* analyzeVideo promises pending at once
MaxLoops == 1       \* progress loops running at once
MaxTimers == 1      \* completion timers pending at once
MaxSubmits == 3     \* handleUrlSubmit invocations in one behaviour
MaxDownloads == 2   \* progress loops started in one behaviour

-----------------------------------------------------------------------------
(* Sample URLs typed into UrlInput.  UrlInput.handleSubmit trims the text  *)
(* and submits it only when it is non-empty.                               *)

U_bad     == "not a url"
U_other   == "https://example.com/v/1"
U_yt      == "https://www.youtube.com/watch?v=abc"
U_ytNoId  == "https://www.youtube.com/feed"
U_vimeo   == "https://vimeo.com/123"
U_tiktok  == "https://www.tiktok.com/@u/video/1"
U_vimeoYt == "https://vimeo.com/1?ref=youtu.be/abc"

Urls == {U_bad, U_other, U_yt, U_ytNoId, U_vimeo, U_tiktok, U_vimeoYt}

\* The urls typed in when the whole App is explored
AppUrls == {U_bad, U_other, U_yt, U_vimeo}

\* new URL(url) succeeds
isValidUrl(url) == url \in {U_other, U_yt, U_ytNoId, U_vimeo, U_tiktok, U_vimeoYt}

\* new URL(url).hostname.toLowerCase()
Hostname(url) ==
    CASE url \in {U_yt, U_ytNoId}    -> "www.youtube.com"
      [] url \in {U_vimeo, U_vimeoYt} -> "vimeo.com"
      [] url = U_tiktok              -> "www.tiktok.com"
      [] OTHER                       -> "example.com"

\* domain.includes(needle) for the needles the program looks for
HostIncludes(domain, needle) ==
    CASE domain = "www.youtube.com" -> needle \in {"youtube.com", "youtube"}
      [] domain = "vimeo.com"       -> needle \in {"vimeo.com", "vimeo"}
      [] domain = "www.tiktok.com"  -> needle \in {"tiktok.com", "tiktok"}
      [] OTHER                      -> FALSE

supportedDomains ==
    {"youtube.com", "youtu.be", "instagram.com", "tiktok.com", "twitter.com", "x.com",
     "facebook.com", "fb.watch", "vimeo.com", "dailymotion.com", "twitch.tv"}

isSupportedPlatform(url) ==
    /\ isValidUrl(url)
    /\ \E supported \in supportedDomains : HostIncludes(Hostname(url), supported)

getPlatformName(url) ==
    IF ~isValidUrl(url) THEN "Unknown Platform"
    ELSE LET domain == Hostname(url) IN
         CASE HostIncludes(domain, "youtube") \/ HostIncludes(domain, "youtu.be") -> "YouTube"
           [] HostIncludes(domain, "facebook") \/ HostIncludes(domain, "fb.watch") -> "Facebook"
           [] HostIncludes(domain, "instagram") -> "Instagram"
           [] HostIncludes(domain, "tiktok") -> "TikTok"
           [] HostIncludes(domain, "twitter") \/ HostIncludes(domain, "x.com") -> "Twitter/X"
           [] HostIncludes(domain, "vimeo") -> "Vimeo"
           [] HostIncludes(domain, "dailymotion") -> "Dailymotion"
           [] HostIncludes(domain, "twitch") -> "Twitch"
           [] OTHER -> "Unknown Platform"

\* url.includes('youtube.com') || url.includes('youtu.be'), on the whole URL text
UrlIncludesYouTube(url) == url \in {U_yt, U_ytNoId, U_vimeoYt}

\* extractYouTubeVideoId(url): "" stands for null
extractYouTubeVideoId(url) == IF url \in {U_yt, U_vimeoYt} THEN "abc" ELSE ""

-----------------------------------------------------------------------------
(* Download URLs.  "" stands for null, undefined and the empty string: the *)
(* program tests them only for truthiness.                                 *)

NoUrl     == ""
DemoHash  == "#demo"
WatchUrl  == "https://www.youtube.com/watch?v=abc"
RealUrl   == "https://cdn.example.net/v.mp4"
MockUrl   == "https://sample-videos.com/zip/10/mp4/sample.mp4"
BlobUrl   == "blob:mock"

Truthy(s) == s # ""

\* downloadUrl.includes('youtube.com/watch')
IncludesYoutubeWatch(s) == s = WatchUrl

Format(type, downloadUrl, demoMode, formatId) ==
    [type |-> type, downloadUrl |-> downloadUrl, demoMode |-> demoMode, formatId |-> formatId]

NullInfo == [null |-> TRUE]

ApiData(source, demoMode, mock, errorDetails) ==
    [source |-> source, demoMode |-> demoMode, mock |-> mock, errorDetails |-> errorDetails]

VideoInfo(platform, formats, apiData) ==
    [platform |-> platform, formats |-> formats, apiData |-> apiData]

-----------------------------------------------------------------------------
(* What a backend can answer.  A JSON body is a record of the fields the   *)
(* program reads; a field that is absent is FALSE, "" or kind "absent".    *)

NoFormats == [kind |-> "absent", items |-> <<>>]

Entry(isNull, url, vcodec) == [isNull |-> isNull, url |-> url, vcodec |-> vcodec]

Data(isNull, title, info, formats, download_url, audio_url, status, url) ==
    [isNull |-> isNull, title |-> title, info |-> info, formats |-> formats,
     download_url |-> download_url, audio_url |-> audio_url, status |-> status, url |-> url,
     text |-> FALSE]

\* The same body with a text field, as cobalt's error answers have
WithText(d) == [d EXCEPT !.text = TRUE]

DNull       == Data(TRUE, FALSE, FALSE, NoFormats, "", "", "", "")
DEmpty      == Data(FALSE, FALSE, FALSE, NoFormats, "", "", "", "")
DTitleOnly  == Data(FALSE, TRUE, FALSE, NoFormats, "", "", "", "")
DInfoOnly   == Data(FALSE, FALSE, TRUE, NoFormats, "", "", "", "")
DFormats    == Data(FALSE, TRUE, FALSE,
                    [kind |-> "array",
                     items |-> <<Entry(FALSE, RealUrl, TRUE), Entry(FALSE, RealUrl, FALSE)>>],
                    "", "", "", "")
DNoUrl      == Data(FALSE, TRUE, FALSE,
                    [kind |-> "array", items |-> <<Entry(FALSE, NoUrl, TRUE)>>], "", "", "", "")
DNullItem   == Data(FALSE, TRUE, FALSE,
                    [kind |-> "array", items |-> <<Entry(TRUE, NoUrl, FALSE)>>], "", "", "", "")
DWatch      == Data(FALSE, TRUE, FALSE,
                    [kind |-> "array", items |-> <<Entry(FALSE, WatchUrl, TRUE)>>], "", "", "", "")
DHash       == Data(FALSE, TRUE, FALSE,
                    [kind |-> "array", items |-> <<Entry(FALSE, DemoHash, TRUE)>>], "", "", "", "")
DSingle     == Data(FALSE, FALSE, FALSE, NoFormats, RealUrl, "", "", "")
DSingleObj  == Data(FALSE, FALSE, FALSE, [kind |-> "object", items |-> <<>>],
                    RealUrl, RealUrl, "", "")
DCobaltOk   == Data(FALSE, FALSE, FALSE, NoFormats, "", "", "success", RealUrl)
DCobaltBare == Data(FALSE, FALSE, FALSE, NoFormats, "", "", "redirect", "")
DCobaltErr  == Data(FALSE, FALSE, FALSE, NoFormats, "", "", "error", "")
DCobaltPick == Data(FALSE, FALSE, FALSE, NoFormats, "", "", "picker", "")

RailwayBodies == {DNull, DEmpty, DTitleOnly, DInfoOnly, DFormats, DNoUrl, DNullItem,
                  DWatch, DHash, DSingle, DSingleObj}
CobaltBodies  == {DNull, DCobaltOk, DCobaltBare, DCobaltErr, DCobaltPick}

\* One fetch: it rejects (network error, AbortSignal.timeout), answers a non-OK
\* status, answers OK with a body response.json() cannot parse, or answers OK
\* with a JSON body.
Response(kind, status, data) == [kind |-> kind, status |-> status, data |-> data]

Failures == {Response("networkError", 0, DNull), Response("timeout", 0, DNull),
             Response("status", 404, DNull), Response("status", 500, DNull),
             Response("status", 503, DNull), Response("badJson", 200, DNull)}

RailwayResponses == Failures \cup {Response("json", 200, d) : d \in RailwayBodies}
CobaltResponses  == {Response("networkError", 0, DNull), Response("status", 500, DNull),
                     Response("badJson", 200, DNull)}
                    \cup {Response("json", 200, d) : d \in CobaltBodies}
OembedResponses  == {Response("networkError", 0, DNull), Response("status", 404, DNull),
                     Response("badJson", 200, DNull), Response("json", 200, DTitleOnly)}
HealthResponses  == {Response("networkError", 0, DNull), Response("status", 200, DNull)}

Env(health, railway, cobalt, oembed) ==
    [health |-> health, railway |-> railway, cobalt |-> cobalt, oembed |-> oembed]

Envs == {Env(h, r, c, o) : h \in HealthResponses, r \in RailwayResponses,
                           c \in CobaltResponses, o \in OembedResponses}

-----------------------------------------------------------------------------
(* The result of one analyzeVideo call: the promise resolves with a        *)
(* VideoInfo or rejects with Error(message); contacted lists the services  *)
(* fetch was called on, in call order.                                     *)

Resolve(info, contacted) ==
    [outcome |-> "resolve", info |-> info, message |-> "", contacted |-> contacted]
Reject(message, contacted) ==
    [outcome |-> "reject", info |-> NullInfo, message |-> message, contacted |-> contacted]

MsgInvalidUrl  == "Invalid URL format"
MsgUnsupported ==
    "Platform not supported. We support YouTube, Instagram, TikTok, Twitter, and more."
MsgBackendError == "Backend error: status"
MsgCannotConnect ==
    "Cannot connect to video analysis service. Please check your internet connection."
MsgFailedToFetch == "Failed to fetch"
MsgTimedOut == "signal timed out"
MsgBadJson == "Unexpected token in JSON"
MsgTypeError == "Cannot read properties of null"
MsgFallbackDetails ==
    "Backend service is currently unavailable. Video information is displayed in demo mode only."
MsgExtractFailed == "Failed to extract YouTube video information"
MsgDemoDetails ==
    "Backend service connection failed. Video information is shown in demo mode."

SeqMap(f(_), s) == [i \in 1..Len(s) |-> f(s[i])]

generateDemoFormats ==
    << Format("video", NoUrl, TRUE, "demo-1080p"), Format("video", NoUrl, TRUE, "demo-720p"),
       Format("video", NoUrl, TRUE, "demo-480p"),  Format("audio", NoUrl, TRUE, "demo-audio") >>

\* A variant whose audio format carries the '#demo' placeholder
generateMockVideoDataDemoAudio(url, platform) ==
    VideoInfo(platform,
              << Format("video", MockUrl, FALSE, "1080p-mp4"), Format("video", MockUrl, FALSE, "720p-mp4"),
                 Format("video", MockUrl, FALSE, "480p-mp4"),  Format("audio", DemoHash, FALSE, "audio-mp3") >>,
              ApiData("mock", FALSE, TRUE, ""))

\* videoAnalyzer.ts, generateMockVideoData
generateMockVideoData(url, platform) ==
    VideoInfo(platform,
              << Format("video", MockUrl, FALSE, "1080p-mp4"), Format("video", MockUrl, FALSE, "720p-mp4"),
                 Format("video", MockUrl, FALSE, "480p-mp4"),  Format("audio", MockUrl, FALSE, "audio-mp3") >>,
              ApiData("mock", FALSE, TRUE, ""))

\* part_003, simulateVideoAnalysis with generateMockFormats
simulateVideoAnalysis(url) ==
    VideoInfo(getPlatformName(url),
              << Format("video", BlobUrl, FALSE, "mock-1080p"), Format("video", BlobUrl, FALSE, "mock-720p"),
                 Format("video", BlobUrl, FALSE, "mock-480p"),  Format("audio", BlobUrl, FALSE, "mock-audio") >>,
              ApiData("mock", FALSE, TRUE, ""))

\* transformBackendResponse of part_005 and of part_003 (line 1463): every entry of
\* data.formats is pushed, with or without a url.  It throws a TypeError on a null
\* body, on a formats field that is no array, and on a null entry.
transformBackendResponse(backendData, originalUrl) ==
    LET fs == backendData.formats
        threw == \/ backendData.isNull
                 \/ fs.kind = "object"
                 \/ \E i \in 1..Len(fs.items) : fs.items[i].isNull
        push(e) == Format(IF e.vcodec THEN "video" ELSE "audio", e.url, FALSE, "backend")
    IN [threw |-> threw,
        info  |-> IF threw THEN NullInfo
                  ELSE VideoInfo(getPlatformName(originalUrl), SeqMap(push, fs.items),
                                 ApiData("backend", FALSE, FALSE, ""))]

\* transformRailwayResponse of part_004 (and part_003 line 895)
transformRailwayResponse(data, originalUrl) ==
    LET fs == data.formats
        \* videoFormats = data.formats || videoInfo.formats || []
        single == (IF Truthy(data.download_url) \/ Truthy(data.url)
                     THEN << Format("video",
                                    IF Truthy(data.download_url) THEN data.download_url ELSE data.url,
                                    FALSE, "railway-video") >>
                     ELSE << >>)
                  \o (IF Truthy(data.audio_url)
                        THEN << Format("audio", data.audio_url, FALSE, "railway-audio") >>
                        ELSE << >>)
        push(e) == Format(IF e.vcodec THEN "video" ELSE "audio", e.url, FALSE, "railway")
        listed == SeqMap(push, SelectSeq(fs.items, LAMBDA e : ~e.isNull /\ Truthy(e.url)))
        threw == fs.kind = "array" /\ \E i \in 1..Len(fs.items) : fs.items[i].isNull
        formats == IF fs.kind = "object" THEN single ELSE listed
    IN [threw |-> threw,
        info  |-> IF threw THEN NullInfo
                  ELSE VideoInfo(getPlatformName(originalUrl),
                                 IF Len(formats) = 0 THEN generateDemoFormats ELSE formats,
                                 ApiData("railway", FALSE, FALSE, ""))]

\* transformBackendResponse(data, url, 'cobalt') of part_004 (and part_003 line 1107)
transformCobaltResponse(backendData, originalUrl) ==
    LET threw == backendData.isNull \/ backendData.status = "error"
        formats == IF backendData.status \in {"success", "redirect"}
                     THEN << Format("video", backendData.url, FALSE, "cobalt-video") >>
                     ELSE << >>
    IN [threw |-> threw,
        info  |-> IF threw THEN NullInfo
                  ELSE VideoInfo(getPlatformName(originalUrl), formats,
                                 ApiData("cobalt", FALSE, FALSE, ""))]

createFallbackVideoInfo(url, errorMessage) ==
    VideoInfo(getPlatformName(url), generateDemoFormats,
              ApiData("fallback-demo", TRUE, FALSE, MsgFallbackDetails))

\* extractYouTubeInfo: it throws before any request when no video id is found;
\* otherwise it asks oEmbed once and returns demo info whatever oEmbed answers.
extractYouTubeInfo(url, oembed) ==
    IF extractYouTubeVideoId(url) = ""
      THEN [threw |-> TRUE, info |-> NullInfo, contacted |-> << >>]
      ELSE [threw |-> FALSE,
            info |-> VideoInfo("YouTube", generateDemoFormats, ApiData("demo-mode", TRUE, FALSE, "")),
            contacted |-> << "oembed" >>]

-----------------------------------------------------------------------------
(* analyzeVideo, one operator per version of utils/videoAnalyzer            *)

Analyzers == {"mock", "p5", "p3mock", "p4", "p3rail"}

\* videoAnalyzer.ts lines 4-22: validation, a delay, mock data
analyzeVideoMock(url, env) ==
    IF ~isValidUrl(url) THEN Reject(MsgInvalidUrl, << >>)
    ELSE IF ~isSupportedPlatform(url) THEN Reject(MsgUnsupported, << >>)
    ELSE Resolve(generateMockVideoData(url, getPlatformName(url)), << >>)

\* part_005 lines 3-46: validation, one request, every failure rejects
analyzeVideoBackend(url, env) ==
    IF ~isValidUrl(url) THEN Reject(MsgInvalidUrl, << >>)
    ELSE IF ~isSupportedPlatform(url) THEN Reject(MsgUnsupported, << >>)
    ELSE LET r == env.railway
             t == transformBackendResponse(r.data, url)
             log == << "railway/download" >>
         IN CASE r.kind = "networkError" -> Reject(MsgCannotConnect, log)
              [] r.kind = "timeout"      -> Reject(MsgTimedOut, log)
              [] r.kind = "status"       -> Reject(MsgBackendError, log)
              [] r.kind = "badJson"      -> Reject(MsgBadJson, log)
              [] OTHER -> IF t.threw THEN Reject(MsgTypeError, log) ELSE Resolve(t.info, log)

\* Mutant: a failed backend request is rethrown instead of falling back to the mock
analyzeVideoMockFallbackRethrows(url, env) ==
    IF ~isValidUrl(url) THEN Reject(MsgInvalidUrl, << >>)
    ELSE IF ~isSupportedPlatform(url) THEN Reject(MsgUnsupported, << >>)
    ELSE LET r == env.railway
             t == transformBackendResponse(r.data, url)
             log == << "railway/download" >>
         IN IF r.kind = "json" /\ ~t.threw THEN Resolve(t.info, log)
            ELSE IF r.kind = "json" THEN Reject(MsgTypeError, log)
            ELSE Resolve(simulateVideoAnalysis(url), log)

\* part_003 lines 1279-1322: validation, one request, every failure falls back to
\* simulateVideoAnalysis
analyzeVideoMockFallback(url, env) ==
    IF ~isValidUrl(url) THEN Reject(MsgInvalidUrl, << >>)
    ELSE IF ~isSupportedPlatform(url) THEN Reject(MsgUnsupported, << >>)
    ELSE LET r == env.railway
             t == transformBackendResponse(r.data, url)
             log == << "railway/download" >>
         IN IF r.kind = "json" /\ ~t.threw
              THEN Resolve(t.info, log)
              ELSE Resolve(simulateVideoAnalysis(url), log)

\* The Railway attempt of part_004 lines 22-93 (withHealth) and of part_003 lines
\* 759-799: ok with the transformed info, or the railwayError message.
RailwayAttempt(withHealth, r, url) ==
    LET d == r.data
        valid == /\ ~d.isNull
                 /\ \/ d.title
                    \/ d.info
                    \/ withHealth /\ (d.formats.kind # "absent" \/ Truthy(d.download_url))
        t == transformRailwayResponse(d, url)
    IN CASE r.kind = "networkError" -> [ok |-> FALSE, info |-> NullInfo, error |-> MsgFailedToFetch]
         [] r.kind = "timeout"      -> [ok |-> FALSE, info |-> NullInfo, error |-> MsgTimedOut]
         [] r.kind = "status"       -> [ok |-> FALSE, info |-> NullInfo, error |-> MsgBackendError]
         [] r.kind = "badJson"      -> [ok |-> FALSE, info |-> NullInfo, error |-> MsgBadJson]
         [] OTHER ->
              IF ~valid THEN [ok |-> FALSE, info |-> NullInfo,
                              error |-> "Invalid response format from backend"]
              ELSE IF t.threw THEN [ok |-> FALSE, info |-> NullInfo, error |-> MsgTypeError]
              ELSE [ok |-> TRUE, info |-> t.info, error |-> ""]

\* The cobalt attempt, part_004 lines 104-139: only an OK response whose body
\* parses and transforms returns; everything else leaves the loop.
CobaltAttempt(c, url) ==
    LET t == transformCobaltResponse(c.data, url)
    IN IF c.kind = "json" /\ ~t.threw
         THEN [ok |-> TRUE, info |-> t.info]
         ELSE [ok |-> FALSE, info |-> NullInfo]

\* Mutant: the platform is checked before the url is parsed
analyzeVideoRailwayPlatformFirst(withHealth, url, env) ==
    IF ~isSupportedPlatform(url) THEN Reject(MsgUnsupported, << >>)
    ELSE IF ~isValidUrl(url) THEN Reject(MsgInvalidUrl, << >>)
    ELSE LET log1 == IF withHealth THEN << "railway/health", "railway/download" >>
                                   ELSE << "railway/download" >>
             r == RailwayAttempt(withHealth, env.railway, url)
             log2 == Append(log1, "cobalt")
             c == CobaltAttempt(env.cobalt, url)
             y == extractYouTubeInfo(url, env.oembed)
             demoInfo == [y.info EXCEPT !.apiData.demoMode = TRUE,
                                        !.apiData.errorDetails = MsgDemoDetails]
         IN IF r.ok THEN Resolve(r.info, log1)
            ELSE IF c.ok THEN Resolve(c.info, log2)
            ELSE IF UrlIncludesYouTube(url) /\ ~y.threw
                   THEN Resolve(demoInfo, log2 \o y.contacted)
            ELSE Resolve(createFallbackVideoInfo(url, r.error), log2)

\* Mutant: cobalt is asked before the Railway answer is looked at
analyzeVideoRailwayEager(withHealth, url, env) ==
    IF ~isValidUrl(url) THEN Reject(MsgInvalidUrl, << >>)
    ELSE IF ~isSupportedPlatform(url) THEN Reject(MsgUnsupported, << >>)
    ELSE LET log1 == IF withHealth THEN << "railway/health", "railway/download" >>
                                   ELSE << "railway/download" >>
             r == RailwayAttempt(withHealth, env.railway, url)
             log2 == Append(log1, "cobalt")
             c == CobaltAttempt(env.cobalt, url)
             y == extractYouTubeInfo(url, env.oembed)
             demoInfo == [y.info EXCEPT !.apiData.demoMode = TRUE,
                                        !.apiData.errorDetails = MsgDemoDetails]
         IN IF r.ok THEN Resolve(r.info, log2)
            ELSE IF c.ok THEN Resolve(c.info, log2)
            ELSE IF UrlIncludesYouTube(url) /\ ~y.threw
                   THEN Resolve(demoInfo, log2 \o y.contacted)
            ELSE Resolve(createFallbackVideoInfo(url, r.error), log2)

\* Mutant: the exception of extractYouTubeInfo is not caught
analyzeVideoRailwayUncaught(withHealth, url, env) ==
    IF ~isValidUrl(url) THEN Reject(MsgInvalidUrl, << >>)
    ELSE IF ~isSupportedPlatform(url) THEN Reject(MsgUnsupported, << >>)
    ELSE LET log1 == IF withHealth THEN << "railway/health", "railway/download" >>
                                   ELSE << "railway/download" >>
             r == RailwayAttempt(withHealth, env.railway, url)
             log2 == Append(log1, "cobalt")
             c == CobaltAttempt(env.cobalt, url)
             y == extractYouTubeInfo(url, env.oembed)
             demoInfo == [y.info EXCEPT !.apiData.demoMode = TRUE,
                                        !.apiData.errorDetails = MsgDemoDetails]
         IN IF r.ok THEN Resolve(r.info, log1)
            ELSE IF c.ok THEN Resolve(c.info, log2)
            ELSE IF UrlIncludesYouTube(url) /\ ~y.threw
                   THEN Resolve(demoInfo, log2 \o y.contacted)
            ELSE IF UrlIncludesYouTube(url)
                   THEN Reject(MsgExtractFailed, log2)
            ELSE Resolve(createFallbackVideoInfo(url, r.error), log2)

\* part_004 lines 3-190 (withHealth) and part_003 lines 741-873
analyzeVideoRailway(withHealth, url, env) ==
    IF ~isValidUrl(url) THEN Reject(MsgInvalidUrl, << >>)
    ELSE IF ~isSupportedPlatform(url) THEN Reject(MsgUnsupported, << >>)
    ELSE LET log1 == IF withHealth THEN << "railway/health", "railway/download" >>
                                   ELSE << "railway/download" >>
             r == RailwayAttempt(withHealth, env.railway, url)
             log2 == Append(log1, "cobalt")
             c == CobaltAttempt(env.cobalt, url)
             y == extractYouTubeInfo(url, env.oembed)
             demoInfo == [y.info EXCEPT !.apiData.demoMode = TRUE,
                                        !.apiData.errorDetails = MsgDemoDetails]
         IN IF r.ok THEN Resolve(r.info, log1)
            ELSE IF c.ok THEN Resolve(c.info, log2)
            ELSE IF UrlIncludesYouTube(url) /\ ~y.threw
                   THEN Resolve(demoInfo, log2 \o y.contacted)
            ELSE Resolve(createFallbackVideoInfo(url, r.error), log2)

analyzeVideo(version, url, env) ==
    CASE version = "mock"   -> analyzeVideoMock(url, env)
      [] version = "p5"     -> analyzeVideoBackend(url, env)
      [] version = "p3mock" -> analyzeVideoMockFallback(url, env)
      [] version = "p4"     -> analyzeVideoRailway(TRUE, url, env)
      [] version = "p3rail" -> analyzeVideoRailway(FALSE, url, env)

-----------------------------------------------------------------------------
(* The analyzers that walk a list of backends: part_003 lines 3-97         *)
(* ("list1": cobalt, then the standard backend) and lines 390-474          *)
(* ("list2": the standard backend, cobalt, a second standard backend)      *)

ListAnalyzers == {"list1", "list2"}

backendEndpoints(version) ==
    IF version = "list1" THEN << "cobalt", "railway" >>
                         ELSE << "railway", "cobalt", "heroku" >>

MsgUnableToConnect == "Unable to connect to video download services. Please try again later."
MsgUnableToAnalyze ==
    "Unable to analyze video. All backend services are currently unavailable."

DObject     == Data(FALSE, TRUE, FALSE, [kind |-> "object", items |-> <<>>], "", "", "", "")
DCobaltText == WithText(DCobaltErr)

ListCobaltResponses ==
    {Response("networkError", 0, DNull), Response("timeout", 0, DNull),
     Response("status", 500, DNull)}
    \cup {Response("json", 200, d) :
            d \in {DNull, DCobaltOk, DCobaltErr, DCobaltText, DCobaltPick}}
ListRailwayResponses ==
    {Response("networkError", 0, DNull), Response("status", 404, DNull),
     Response("badJson", 200, DNull)}
    \cup {Response("json", 200, d) :
            d \in {DNull, DEmpty, DTitleOnly, DFormats, DNoUrl, DNullItem, DObject}}
ListHerokuResponses ==
    {Response("networkError", 0, DNull), Response("status", 503, DNull),
     Response("json", 200, DFormats), Response("json", 200, DNullItem)}

ListEnv(cobalt, railway, heroku, oembed) ==
    [cobalt |-> cobalt, railway |-> railway, heroku |-> heroku, oembed |-> oembed]

ListEnvs == {ListEnv(c, r, h, o) : c \in ListCobaltResponses, r \in ListRailwayResponses,
                                   h \in ListHerokuResponses, o \in OembedResponses}

\* The test on the parsed body: part_003 line 75 and line 452
HasRequiredFields(version, data) ==
    /\ ~data.isNull
    /\ IF version = "list1"
         THEN Truthy(data.url) \/ data.formats.kind # "absent" \/ data.title
         ELSE data.title \/ data.text

\* transformBackendResponse of part_003 line 218, standard branch: the entries
\* with a url are pushed; with none, the demo formats are returned
transformStandardResponse(backendData, originalUrl) ==
    LET fs == backendData.formats
        threw == fs.kind = "array" /\ \E i \in 1..Len(fs.items) : fs.items[i].isNull
        push(e) == Format(IF e.vcodec THEN "video" ELSE "audio", e.url, FALSE, "format")
        formats == IF fs.kind = "array"
                     THEN SeqMap(push, SelectSeq(fs.items, LAMBDA e : ~e.isNull /\ Truthy(e.url)))
                     ELSE << >>
    IN [threw |-> threw,
        info  |-> IF threw THEN NullInfo
                  ELSE IF Len(formats) = 0
                    THEN VideoInfo(getPlatformName(originalUrl), generateDemoFormats,
                                   ApiData("backend", TRUE, FALSE, ""))
                    ELSE VideoInfo(getPlatformName(originalUrl), formats,
                                   ApiData("backend", FALSE, FALSE, ""))]

\* transformBackendResponse of part_003 line 585: cobalt never throws on a
\* non-null body; the standard branch pushes every entry and calls forEach on
\* whatever formats is
transformEndpointResponse(backendData, originalUrl, endpoint) ==
    LET fs == backendData.formats
        push(e) == Format(IF e.vcodec THEN "video" ELSE "audio", e.url, FALSE, "format")
        threw == IF endpoint = "cobalt" THEN backendData.isNull
                 ELSE \/ backendData.isNull
                      \/ fs.kind = "object"
                      \/ \E i \in 1..Len(fs.items) : fs.items[i].isNull
        formats == IF endpoint = "cobalt"
                     THEN (IF backendData.status \in {"success", "redirect"}
                             THEN << Format("video", backendData.url, FALSE, "cobalt-video") >>
                             ELSE << >>)
                     ELSE SeqMap(push, fs.items)
    IN [threw |-> threw,
        info  |-> IF threw THEN NullInfo
                  ELSE VideoInfo(getPlatformName(originalUrl), formats,
                                 ApiData(IF endpoint = "cobalt" THEN "cobalt" ELSE "backend",
                                         FALSE, FALSE, ""))]

transformListResponse(version, data, url, endpoint) ==
    IF version = "list2" THEN transformEndpointResponse(data, url, endpoint)
    ELSE IF endpoint = "cobalt" THEN transformCobaltResponse(data, url)
    ELSE transformStandardResponse(data, url)

generateYouTubeFormats ==
    << Format("video", WatchUrl, FALSE, "youtube-1080p"),
       Format("video", WatchUrl, FALSE, "youtube-720p"),
       Format("video", WatchUrl, FALSE, "youtube-480p"),
       Format("audio", WatchUrl, FALSE, "youtube-audio") >>

\* Mutant: a failed oEmbed request is not caught
extractYouTubeInfoListOembedThrows(version, url, oembed) ==
    IF extractYouTubeVideoId(url) = ""
      THEN [threw |-> TRUE, info |-> NullInfo, contacted |-> << >>]
    ELSE IF oembed.kind \in {"networkError", "badJson"}
      THEN [threw |-> TRUE, info |-> NullInfo, contacted |-> << "oembed" >>]
      ELSE [threw |-> FALSE,
            info |-> IF version = "list1"
                       THEN VideoInfo("YouTube", generateDemoFormats,
                                      ApiData("demo-mode", TRUE, FALSE, ""))
                       ELSE VideoInfo("YouTube", generateYouTubeFormats,
                                      ApiData(IF oembed.kind = "json" THEN "youtube-oembed"
                                                                      ELSE "youtube-fallback",
                                              FALSE, FALSE, "")),
            contacted |-> << "oembed" >>]

\* extractYouTubeInfo of part_003 line 99 and line 476: no video id throws before
\* any request; otherwise oEmbed is asked once
extractYouTubeInfoList(version, url, oembed) ==
    IF extractYouTubeVideoId(url) = ""
      THEN [threw |-> TRUE, info |-> NullInfo, contacted |-> << >>]
      ELSE [threw |-> FALSE,
            info |-> IF version = "list1"
                       THEN VideoInfo("YouTube", generateDemoFormats,
                                      ApiData("demo-mode", TRUE, FALSE, ""))
                       ELSE VideoInfo("YouTube", generateYouTubeFormats,
                                      ApiData(IF oembed.kind = "json" THEN "youtube-oembed"
                                                                      ELSE "youtube-fallback",
                                              FALSE, FALSE, "")),
            contacted |-> << "oembed" >>]

\* One iteration of the for loop: the response is returned, or the loop goes on
BackendAttempt(version, endpoint, r, url) ==
    LET t == transformListResponse(version, r.data, url, endpoint)
    IN IF r.kind = "json" /\ HasRequiredFields(version, r.data) /\ ~t.threw
         THEN [ok |-> TRUE, info |-> t.info]
         ELSE [ok |-> FALSE, info |-> NullInfo]

\* After the loop: YouTube urls get extractYouTubeInfo, whose exception leaves
\* analyzeVideo through the outer catch; the others reject
AfterBackends(version, url, env, log) ==
    LET y == extractYouTubeInfoList(version, url, env.oembed)
    IN IF UrlIncludesYouTube(url)
         THEN (IF y.threw THEN Reject(MsgExtractFailed, log)
                          ELSE Resolve(y.info, log \o y.contacted))
         ELSE Reject(IF version = "list1" THEN MsgUnableToConnect ELSE MsgUnableToAnalyze, log)

RECURSIVE TryBackends(_, _, _, _, _)
\* Mutant: a backend whose answer was accepted does not end the loop
TryBackendsNoReturn(version, k, url, env, log) ==
    LET endpoints == backendEndpoints(version)
    IN IF k > Len(endpoints) THEN AfterBackends(version, url, env, log)
       ELSE LET a == BackendAttempt(version, endpoints[k], env[endpoints[k]], url)
                log1 == Append(log, endpoints[k])
            IN IF a.ok /\ k = Len(endpoints) THEN Resolve(a.info, log1)
               ELSE TryBackends(version, k + 1, url, env, log1)

\* The for loop over backendEndpoints from its k-th element on
TryBackends(version, k, url, env, log) ==
    LET endpoints == backendEndpoints(version)
    IN IF k > Len(endpoints) THEN AfterBackends(version, url, env, log)
       ELSE LET a == BackendAttempt(version, endpoints[k], env[endpoints[k]], url)
                log1 == Append(log, endpoints[k])
            IN IF a.ok THEN Resolve(a.info, log1)
               ELSE TryBackends(version, k + 1, url, env, log1)

analyzeVideoList(version, url, env) ==
    IF ~isValidUrl(url) THEN Reject(MsgInvalidUrl, << >>)
    ELSE IF ~isSupportedPlatform(url) THEN Reject(MsgUnsupported, << >>)
    ELSE TryBackends(version, 1, url, env, << >>)


-----------------------------------------------------------------------------
(* The App component                                                       *)

AppVersions == {"app1", "app2", "p6"}
    \* app1: src/src/App.tsx lines 13-142;  app2: src/src/App.tsx lines 157-279;
    \* p6: src/unnamed/part_006 lines 13-177

NullProgress == [null |-> TRUE]
Progress(percentage, eta) == [percentage |-> percentage, eta |-> eta]
NoFormat == Format("", "", FALSE, "")

\* What analyzeVideo can settle with for a url, over everything the backends can answer
Outcomes ==
    [v \in Analyzers, u \in Urls |->
        { [outcome |-> analyzeVideo(v, u, e).outcome, info |-> analyzeVideo(v, u, e).info,
           message |-> analyzeVideo(v, u, e).message] : e \in Envs }]

\* errorMessage.includes(needle), for the messages analyzeVideo rejects with
MessageIncludes(message, needle) ==
    CASE needle = "Invalid URL"            -> message = MsgInvalidUrl
      [] needle = "Platform not supported" -> message = MsgUnsupported
      [] needle = "Failed to fetch"        -> message = MsgFailedToFetch
      [] OTHER                             -> FALSE

MsgFriendlyInvalid ==
    "Please enter a valid video URL from a supported platform (YouTube, Instagram, TikTok, etc.)"
MsgFriendlyUnsupported ==
    "This platform is not currently supported. We support YouTube, Instagram, TikTok, Twitter, Facebook, Vimeo, and more."
MsgFriendlyUnavailable == "The video download service is temporarily unavailable."
MsgDemoApp1 == "This is a demo. In a real implementation, the file would be downloaded from: "
MsgDemoP6 == "Demo Mode: The video download service is currently unavailable."
MsgInvalidDownloadUrl == "Invalid download URL. Backend service may not be working properly."
MsgDownloadFailed == "Failed to download the file. Please try again."
MsgSimulationFailed ==
    "Download simulation failed. In a real app, this would download the actual file."
MsgIllegalConstructor == "Failed to construct 'Notification': Illegal constructor."

\* The catch block of handleUrlSubmit: part_006 rewrites three kinds of message
userFriendlyError(version, errorMessage) ==
    IF version # "p6" THEN errorMessage
    ELSE IF MessageIncludes(errorMessage, "Invalid URL") THEN MsgFriendlyInvalid
    ELSE IF MessageIncludes(errorMessage, "Platform not supported") THEN MsgFriendlyUnsupported
    ELSE IF MessageIncludes(errorMessage, "Backend service")
            \/ MessageIncludes(errorMessage, "Failed to fetch") THEN MsgFriendlyUnavailable
    ELSE errorMessage

AppInit ==
    /\ appState = "idle"
    /\ videoInfo = NullInfo
    /\ error = ""
    /\ downloadProgress = NullProgress
    /\ currentUrl = ""
    /\ calls = << >>
    /\ loops = << >>
    /\ timers = << >>
    /\ clicked = NoFormat
    /\ justClicked = NoFormat
    /\ lastUrl = ""
    /\ written = -1
    /\ submits = 0
    /\ downloads = 0

\* The simulated network delay of the mock analyses is 1500 + Math.random() * 1000 ms
AnalysisDelayMin == 1500

\* The delay of the completion timer in ms
CompletionDelay == 1000

\* A pending handleUrlSubmit: its url and the number of completion timers that were
\* pending when analyzeVideo was called
Call(url, timersAhead) == [url |-> url, timersAhead |-> timersAhead]

\* The outcome comes after the simulated network delay, which outlasts every
\* completion timer that was pending when the analysis began
Delayed(o) ==
    /\ AnalysisDelayMin > CompletionDelay
    /\ o.outcome = "resolve"
    /\ o.info.apiData.mock

\* Mutant: the submitted url is not stored
StartAnalysisKeepsUrl(url) ==
    /\ Len(calls) < MaxCalls
    /\ submits < MaxSubmits
    /\ submits' = submits + 1
    /\ currentUrl' = currentUrl
    /\ appState' = "analyzing"
    /\ error' = ""
    /\ videoInfo' = NullInfo
    /\ calls' = Append(calls, Call(url, Len(timers)))
    /\ lastUrl' = url
    /\ justClicked' = NoFormat
    /\ UNCHANGED <<appVersion, analyzer, downloadProgress, loops, timers, clicked, written,
                   downloads, run>>

\* handleUrlSubmit up to `await analyzeVideo(url)`
StartAnalysis(url) ==
    /\ Len(calls) < MaxCalls
    /\ submits < MaxSubmits
    /\ submits' = submits + 1
    /\ currentUrl' = url
    /\ appState' = "analyzing"
    /\ error' = ""
    /\ videoInfo' = NullInfo
    /\ calls' = Append(calls, Call(url, Len(timers)))
    /\ lastUrl' = url
    /\ justClicked' = NoFormat
    /\ UNCHANGED <<appVersion, analyzer, downloadProgress, loops, timers, clicked, written,
                   downloads, run>>

\* UrlInput is rendered in 'idle' and 'analyzing'; its input and button are disabled
\* while isAnalyzing, and handleSubmit passes on only a non-empty trimmed text.
HandleUrlSubmit ==
    /\ appState = "idle"
    /\ \E url \in AppUrls : StartAnalysis(url)

\* ErrorDisplay, with its Try Again button, is rendered in 'error' only
HandleRetry ==
    /\ appState = "error"
    /\ IF currentUrl # ""
         THEN StartAnalysis(currentUrl)
         ELSE /\ appState' = "idle"
              /\ justClicked' = NoFormat
              /\ UNCHANGED <<appVersion, analyzer, videoInfo, error, downloadProgress,
                             currentUrl, calls, loops, timers, clicked, lastUrl, written,
                             submits, downloads, run>>

RemoveAt(s, k) == SubSeq(s, 1, k - 1) \o SubSeq(s, k + 1, Len(s))

\* handleUrlSubmit after `await analyzeVideo(url)`: the try body or the catch block
AnalysisSettled ==
    \E k \in 1..Len(calls) :
      \E o \in Outcomes[analyzer, calls[k].url] :
        /\ Delayed(o) => calls[k].timersAhead = 0
        /\ calls' = RemoveAt(calls, k)
        /\ justClicked' = NoFormat
        /\ IF o.outcome = "resolve"
             THEN /\ videoInfo' = o.info
                  /\ appState' = "ready"
                  /\ error' = error
             ELSE /\ error' = userFriendlyError(appVersion, o.message)
                  /\ appState' = "error"
                  /\ videoInfo' = videoInfo
        /\ UNCHANGED <<appVersion, analyzer, downloadProgress, currentUrl, loops, timers,
                       clicked, lastUrl, written, submits, downloads, run>>

\* FormatSelector lists the formats of the selected tab; the tab starts at 'video'
\* and the tab buttons exist only when there are both video and audio formats.
Offered(formats) ==
    { j \in 1..Len(formats) :
        \/ formats[j].type = "video"
        \/ \E v \in 1..Len(formats) : formats[v].type = "video" }

\* The test handleDownload makes before anything else
IsDemoClick(version, format, info) ==
    CASE version = "app1" -> ~Truthy(format.downloadUrl) \/ format.downloadUrl = DemoHash
      [] version = "app2" -> FALSE
      [] version = "p6"   -> format.demoMode \/ ~Truthy(format.downloadUrl)

DemoMessage(version, format, info) ==
    IF version = "p6"
      THEN (IF Truthy(info.apiData.errorDetails) THEN info.apiData.errorDetails ELSE MsgDemoP6)
      ELSE MsgDemoApp1

\* The first statement of the try block of part_006
ThrowsInvalidDownloadUrl(version, format) ==
    version = "p6" /\ (~Truthy(format.downloadUrl) \/ IncludesYoutubeWatch(format.downloadUrl))

\* handleDownload from the click to the first `await` of the progress loop.  The
\* download buttons are rendered in 'ready' and 'downloading' and disabled while
\* isDownloading.
HandleDownload ==
    /\ appState = "ready"
    /\ videoInfo # NullInfo
    /\ Len(loops) < MaxLoops
    /\ \E j \in Offered(videoInfo.formats) :
         LET format == videoInfo.formats[j] IN
         /\ justClicked' = format
         /\ IF IsDemoClick(appVersion, format, videoInfo)
              THEN /\ error' = DemoMessage(appVersion, format, videoInfo)
                   /\ appState' = "error"
                   /\ UNCHANGED <<downloadProgress, loops, written, downloads>>
              ELSE IF ThrowsInvalidDownloadUrl(appVersion, format)
              THEN /\ error' = MsgInvalidDownloadUrl
                   /\ appState' = "error"
                   /\ downloadProgress' = NullProgress
                   /\ written' = 0
                   /\ UNCHANGED <<loops, downloads>>
              ELSE /\ downloads < MaxDownloads
                   /\ downloads' = downloads + 1
                   /\ appState' = "downloading"
                   /\ downloadProgress' = Progress(0, "Preparing...")
                   /\ written' = 0
                   /\ loops' = Append(loops, [i |-> 0, format |-> format, updates |-> 0])
                   /\ UNCHANGED error
    /\ UNCHANGED <<appVersion, analyzer, videoInfo, currentUrl, calls, timers, clicked,
                   lastUrl, submits, run>>

\* A variant whose random step is Math.floor(Math.random() * 19 + 1)
StepsFromOne == {1, 19}

\* Math.floor(Math.random() * 15 + 5) lies in 5..19: the least and the greatest
\* step
Steps == {5, 19}

\* The bound of the progress loop: i <= 100 in App.tsx line 67, i <= 90 elsewhere
LoopCap(version) == IF version = "app1" THEN 100 ELSE 90

Min(a, b) == IF a <= b THEN a ELSE b

Eta(percentage) == IF percentage < 90 THEN "time left" ELSE "Almost done..."

\* new Notification(...) exists in app2 and part_006 only
HasNotification(version) == version \in {"app2", "p6"}

\* link.click() exists in app1 and part_006 only
HasLink(version) == version \in {"app1", "p6"}

CatchMessage(version) ==
    CASE version = "app1" -> MsgDownloadFailed
      [] version = "app2" -> MsgSimulationFailed
      [] version = "p6"   -> MsgIllegalConstructor

\* One timer of the progress loop fires: updateProgress(min(i, cap)), i += step, and
\* either the next timer is awaited or the rest of the try block runs: link.click(),
\* progress 100, the completion timer, the Notification.  A Notification constructor
\* that throws (as it does where only service workers may notify) lands in the catch
\* block after the completion timer was set.
ProgressTick ==
    /\ \E m \in 1..Len(loops), step \in Steps, throws \in BOOLEAN :
      LET l == loops[m]
          cap == LoopCap(appVersion)
          percentage == Min(l.i, cap)
          next == l.i + step
      IN IF next <= cap
           THEN /\ ~throws
                /\ downloadProgress' = Progress(percentage, Eta(percentage))
                /\ written' = percentage
                /\ loops' = [loops EXCEPT ![m].i = next, ![m].updates = @ + 1]
                /\ UNCHANGED <<appState, error, timers, clicked>>
           ELSE /\ Len(timers) < MaxTimers
                /\ throws => HasNotification(appVersion)
                /\ loops' = RemoveAt(loops, m)
                /\ clicked' = IF HasLink(appVersion) THEN l.format ELSE clicked
                /\ written' = 100
                /\ timers' = Append(timers, l.format)
                /\ IF throws
                     THEN /\ error' = CatchMessage(appVersion)
                          /\ appState' = "error"
                          /\ downloadProgress' = NullProgress
                     ELSE /\ downloadProgress' = Progress(100, "Complete!")
                          /\ UNCHANGED <<appState, error>>
    /\ justClicked' = NoFormat
    /\ UNCHANGED <<appVersion, analyzer, videoInfo, currentUrl, calls, lastUrl, submits,
                   downloads, run>>

\* The callback of setTimeout(..., 1000)
CompletionTimer ==
    /\ timers # << >>
    /\ timers' = Tail(timers)
    /\ justClicked' = NoFormat
    /\ appState' = "completed"
    /\ downloadProgress' = NullProgress
    /\ calls' = [k \in 1..Len(calls) |->
                   [calls[k] EXCEPT !.timersAhead = IF @ > 0 THEN @ - 1 ELSE 0]]
    /\ UNCHANGED <<appVersion, analyzer, videoInfo, error, currentUrl, loops, clicked,
                   lastUrl, written, submits, downloads, run>>

\* Mutant: the reset leaves currentUrl alone
HandleNewDownloadKeepsUrl ==
    /\ appState = "completed"
    /\ appState' = "idle"
    /\ videoInfo' = NullInfo
    /\ error' = ""
    /\ downloadProgress' = NullProgress
    /\ currentUrl' = currentUrl
    /\ justClicked' = NoFormat
    /\ UNCHANGED <<appVersion, analyzer, calls, loops, timers, clicked, lastUrl, written,
                   submits, downloads, run>>

\* CompletedDownload, with both of its buttons, is rendered in 'completed' only
HandleNewDownload ==
    /\ appState = "completed"
    /\ appState' = "idle"
    /\ videoInfo' = NullInfo
    /\ error' = ""
    /\ downloadProgress' = NullProgress
    /\ currentUrl' = ""
    /\ justClicked' = NoFormat
    /\ UNCHANGED <<appVersion, analyzer, calls, loops, timers, clicked, lastUrl, written,
                   submits, downloads, run>>

-----------------------------------------------------------------------------
(* The App with any of the analyzers                                       *)

NoResult == [outcome |-> "pending", info |-> NullInfo, message |-> "", contacted |-> << >>]
IdleRun == [url |-> "", env |-> Env(Response("status", 200, DNull), Response("status", 200, DNull),
                                    Response("status", 200, DNull), Response("status", 200, DNull)),
            done |-> FALSE, result |-> NoResult]

Init ==
    /\ appVersion \in AppVersions
    /\ analyzer \in Analyzers
    /\ AppInit
    /\ run = IdleRun

Next ==
    \/ HandleUrlSubmit
    \/ HandleRetry
    \/ AnalysisSettled
    \/ HandleDownload
    \/ ProgressTick
    \/ CompletionTimer
    \/ HandleNewDownload

Spec == Init /\ [][Next]_vars

\* The App of App.tsx lines 13-105 alone, with any of the analyzers
InitAppTsx ==
    /\ appVersion = "app1"
    /\ analyzer \in Analyzers
    /\ AppInit
    /\ run = IdleRun

SpecAppTsx == InitAppTsx /\ [][Next]_vars

-----------------------------------------------------------------------------
(* One analyzeVideo call on its own: any version, any url, any backends    *)

InitAnalyzer ==
    /\ appVersion = "app1"
    /\ analyzer \in Analyzers
    /\ AppInit
    /\ run \in [url : Urls, env : Envs, done : {FALSE}, result : {NoResult}]

Analyze ==
    /\ ~run.done
    /\ run' = [run EXCEPT !.done = TRUE, !.result = analyzeVideo(analyzer, run.url, run.env)]
    /\ UNCHANGED appVars

NextAnalyzer == Analyze

SpecAnalyzer == InitAnalyzer /\ [][NextAnalyzer]_vars

-----------------------------------------------------------------------------
(* One call of a backend-list analyzeVideo on its own                      *)

InitBackendList ==
    /\ appVersion = "app1"
    /\ analyzer \in ListAnalyzers
    /\ AppInit
    /\ run \in [url : Urls, env : ListEnvs, done : {FALSE}, result : {NoResult}]

AnalyzeList ==
    /\ ~run.done
    /\ run' = [run EXCEPT !.done = TRUE,
                          !.result = analyzeVideoList(analyzer, run.url, run.env)]
    /\ UNCHANGED appVars

NextBackendList == AnalyzeList

SpecBackendList == InitBackendList /\ [][NextBackendList]_vars

-----------------------------------------------------------------------------
(* The App of App.tsx lines 13-105 with analyzeVideo of part_004 taken one  *)
(* request at a time: a request that is awaited either is answered or is   *)
(* aborted by its AbortSignal.timeout.                                      *)

Requests == {"health", "railway", "cobalt", "oembed"}

\* A variant whose cobalt fetch carries no AbortSignal.timeout
RequestTimeoutNoCobalt(request) ==
    CASE request = "health"  -> 5000
      [] request = "railway" -> 30000
      [] request = "cobalt"  -> 0
      [] request = "oembed"  -> 5000

\* The AbortSignal.timeout of each fetch, in ms; 0 would be a fetch without one
RequestTimeout(request) ==
    CASE request = "health"  -> 5000
      [] request = "railway" -> 30000
      [] request = "cobalt"  -> 15000
      [] request = "oembed"  -> 5000

\* What a backend that answers in time may answer
Answers(request) ==
    CASE request = "health"  -> {Response("status", 200, DNull), Response("networkError", 0, DNull)}
      [] request = "railway" -> {Response("status", 500, DNull), Response("json", 200, DEmpty),
                                 Response("json", 200, DFormats)}
      [] request = "cobalt"  -> {Response("status", 500, DNull), Response("json", 200, DCobaltErr),
                                 Response("json", 200, DCobaltOk)}
      [] request = "oembed"  -> {Response("status", 404, DNull), Response("json", 200, DTitleOnly)}

TimedOut == Response("timeout", 0, DNull)

StepRun == [url |-> IdleRun.url, env |-> IdleRun.env, done |-> FALSE, result |-> NoResult,
            pending |-> "none"]

\* analyzeVideo is entered: validation, then the health check is sent
CallBegins ==
    /\ calls # << >>
    /\ run.pending = "none"
    /\ ~run.done
    /\ LET url == calls[1].url IN
       run' = IF isValidUrl(url) /\ isSupportedPlatform(url)
                THEN [StepRun EXCEPT !.url = url, !.pending = "health"]
                ELSE [StepRun EXCEPT !.url = url, !.done = TRUE,
                                     !.result = analyzeVideo(analyzer, url, StepRun.env)]
    /\ UNCHANGED appVars

\* The request after this one, or "none" when analyzeVideo returns
RequestAfter(request, response, url) ==
    CASE request = "health"  -> "railway"
      [] request = "railway" -> IF RailwayAttempt(TRUE, response, url).ok THEN "none" ELSE "cobalt"
      [] request = "cobalt"  -> IF CobaltAttempt(response, url).ok THEN "none"
                                ELSE IF UrlIncludesYouTube(url) /\ extractYouTubeVideoId(url) # ""
                                  THEN "oembed"
                                  ELSE "none"
      [] request = "oembed"  -> "none"

\* The awaited fetch settles with response and analyzeVideo runs to its next await
RequestSettles(response) ==
    LET env1 == [run.env EXCEPT ![run.pending] = response]
        next == RequestAfter(run.pending, response, run.url)
    IN /\ run' = IF next = "none"
                   THEN [run EXCEPT !.env = env1, !.pending = "none", !.done = TRUE,
                                    !.result = analyzeVideo(analyzer, run.url, env1)]
                   ELSE [run EXCEPT !.env = env1, !.pending = next]
       /\ UNCHANGED appVars

RequestAnswers ==
    /\ run.pending \in Requests
    /\ \E response \in Answers(run.pending) : RequestSettles(response)

RequestTimesOut ==
    /\ run.pending \in Requests
    /\ RequestTimeout(run.pending) > 0
    /\ RequestSettles(TimedOut)

\* handleUrlSubmit after `await analyzeVideo(url)`, with the result of the call
AnalysisCompletes ==
    /\ run.done
    /\ calls # << >>
    /\ calls' = Tail(calls)
    /\ justClicked' = NoFormat
    /\ IF run.result.outcome = "resolve"
         THEN /\ videoInfo' = run.result.info
              /\ appState' = "ready"
              /\ error' = error
         ELSE /\ error' = userFriendlyError(appVersion, run.result.message)
              /\ appState' = "error"
              /\ videoInfo' = videoInfo
    /\ run' = [run EXCEPT !.done = FALSE, !.result = NoResult]
    /\ UNCHANGED <<appVersion, analyzer, downloadProgress, currentUrl, loops, timers,
                   clicked, lastUrl, written, submits, downloads>>

InitSettling ==
    /\ appVersion = "app1"
    /\ analyzer = "p4"
    /\ AppInit
    /\ run = StepRun

NextSettling ==
    \/ HandleUrlSubmit
    \/ HandleRetry
    \/ CallBegins
    \/ RequestAnswers
    \/ RequestTimesOut
    \/ AnalysisCompletes
    \/ HandleDownload
    \/ ProgressTick
    \/ CompletionTimer
    \/ HandleNewDownload

\* Timers fire and promise continuations run; nothing makes a backend answer
SpecSettling ==
    /\ InitSettling
    /\ [][NextSettling]_vars
    /\ WF_vars(CallBegins)
    /\ WF_vars(RequestTimesOut)
    /\ WF_vars(AnalysisCompletes)

-----------------------------------------------------------------------------
(* The three Apps with the analyzer of videoAnalyzer.ts, where the timers   *)
(* of handleDownload (the sleeps of the progress loop and the completion    *)
(* timer) fire.                                                              *)

InitDownload ==
    /\ appVersion \in AppVersions
    /\ analyzer = "mock"
    /\ AppInit
    /\ run = IdleRun

SpecDownload ==
    /\ InitDownload
    /\ [][Next]_vars
    /\ WF_vars(ProgressTick)
    /\ WF_vars(CompletionTimer)

-----------------------------------------------------------------------------
(* Claims about analyzeVideo, checked under SpecAnalyzer                   *)

Supported(url) == isValidUrl(url) /\ isSupportedPlatform(url)

\* The request of part_003 line 1294 failed: the fetch rejected or timed out, the
\* status was not OK, the body did not parse, or transforming it threw
BackendRequestFailed(env, url) ==
    \/ env.railway.kind # "json"
    \/ transformBackendResponse(env.railway.data, url).threw

\* C3: in the analyzer with mock fallback, a valid url on a supported platform never
\* rejects, and whenever the backend request fails the call resolves with mock
\* VideoInfo whose apiData.mock is true.
C3_MockFallbackNeverRejects ==
    (analyzer = "p3mock" /\ run.done /\ Supported(run.url)) =>
        /\ run.result.outcome = "resolve"
        /\ BackendRequestFailed(run.env, run.url) =>
              /\ run.result.info.apiData.mock
              /\ run.result.info = simulateVideoAnalysis(run.url)

C3_Witness ==
    /\ analyzer = "p3mock" /\ run.done /\ run.url = U_vimeo
    /\ run.env.railway.kind = "json" /\ run.env.railway.data = DNullItem
    /\ run.result.outcome = "resolve" /\ run.result.info.apiData.mock

\* C4: validation precedes every request: an unparseable url rejects with 'Invalid
\* URL format', a parseable url on no supported domain rejects with 'Platform not
\* supported...', no fetch is issued in either case, and the invalid-url check wins.
C4_ValidationFirst ==
    run.done =>
        /\ ~isValidUrl(run.url) =>
              /\ run.result.outcome = "reject"
              /\ run.result.message = MsgInvalidUrl
              /\ run.result.contacted = << >>
        /\ (isValidUrl(run.url) /\ ~isSupportedPlatform(run.url)) =>
              /\ run.result.outcome = "reject"
              /\ run.result.message = MsgUnsupported
              /\ run.result.contacted = << >>
        /\ Supported(run.url) => run.result.message \notin {MsgInvalidUrl, MsgUnsupported}

C4_Witness ==
    /\ run.done /\ analyzer = "p4" /\ run.url = U_bad
    /\ run.env.railway.kind = "json"
    /\ run.result.message = MsgInvalidUrl /\ run.result.contacted = << >>

\* The Railway answer is one the analyzer returns: OK, parsed, with the fields
\* line 75 of part_004 (line 784 of part_003) asks for, and transformed without
\* an exception
RailwayAnswered(version, env, url) ==
    LET d == env.railway.data IN
    /\ env.railway.kind = "json"
    /\ ~d.isNull
    /\ \/ d.title
       \/ d.info
       \/ version = "p4" /\ (d.formats.kind # "absent" \/ Truthy(d.download_url))
    /\ ~transformRailwayResponse(d, url).threw

CobaltAnswered(env, url) ==
    env.cobalt.kind = "json" /\ ~transformCobaltResponse(env.cobalt.data, url).threw

ServiceRank(service) ==
    CASE service = "railway/health"   -> 1
      [] service = "railway/download" -> 2
      [] service = "cobalt"           -> 3
      [] service = "oembed"           -> 4

InLog(service, log) == \E i \in 1..Len(log) : log[i] = service

AllDemo(formats) ==
    \A i \in 1..Len(formats) : formats[i].demoMode /\ ~Truthy(formats[i].downloadUrl)

\* C7: every VideoInfo analyzeVideo of part_004 resolves with whose formats are all
\* demo formats has apiData.demoMode true.
C7_DemoFormatsFlagged ==
    (analyzer = "p4" /\ run.done /\ run.result.outcome = "resolve"
       /\ Len(run.result.info.formats) > 0 /\ AllDemo(run.result.info.formats))
        => run.result.info.apiData.demoMode

-----------------------------------------------------------------------------
(* Claims about App, checked under Spec                                    *)

AllowedTransitions ==
    { <<"idle", "analyzing">>, <<"analyzing", "ready">>, <<"analyzing", "error">>,
      <<"ready", "downloading">>, <<"ready", "error">>, <<"downloading", "completed">>,
      <<"downloading", "error">>, <<"error", "analyzing">>, <<"completed", "idle">> }

\* C1: in App (App.tsx lines 13-105 and part_006) every change of appState is one
\* of idle->analyzing, analyzing->ready, analyzing->error, ready->downloading,
\* ready->error, downloading->completed, downloading->error, error->analyzing,
\* completed->idle.
C1_OnlyAllowedTransitions ==
    [][(appVersion \in {"app1", "p6"} /\ appState' # appState)
          => <<appState, appState'>> \in AllowedTransitions]_vars

\* C2: at most one analyzeVideo call is in flight at any time.
C2_OneAnalysisInFlight ==
    appVersion \in {"app1", "p6"} => Len(calls) <= 1

\* The formats C6 says are never downloaded
NotDownloadable(version, format) ==
    \/ format.demoMode
    \/ ~Truthy(format.downloadUrl)
    \/ format.downloadUrl = DemoHash
    \/ version = "p6" /\ IncludesYoutubeWatch(format.downloadUrl)

\* C6: handleDownload never invokes link.click for a format that is a demo format,
\* has no downloadUrl, has downloadUrl '#demo' or (part_006) a downloadUrl holding
\* 'youtube.com/watch'; the click on such a format ends in 'error' with a non-empty
\* message and sets no completion timer.
C6_NoDownloadOfDemoFormat ==
    appVersion \in {"app1", "p6"} =>
        /\ clicked # NoFormat => ~NotDownloadable(appVersion, clicked)
        /\ \A m \in 1..Len(loops) : ~NotDownloadable(appVersion, loops[m].format)
        /\ \A m \in 1..Len(timers) : ~NotDownloadable(appVersion, timers[m])
        /\ (justClicked # NoFormat /\ NotDownloadable(appVersion, justClicked)) =>
              appState = "error" /\ error # ""

\* C8: the percentages written to downloadProgress lie in 0..100 and never
\* decrease during a download, and when appState becomes 'completed' the last
\* percentage written is 100.
C8_CompletedAfterHundred ==
    /\ written \in -1..100
    /\ appState = "completed" => written = 100

InitialValues ==
    /\ appState = "idle"
    /\ videoInfo = NullInfo
    /\ error = ""
    /\ downloadProgress = NullProgress
    /\ currentUrl = ""

\* C9: handleNewDownload returns appState, videoInfo, error, downloadProgress and
\* currentUrl to their initial values, and in App.tsx lines 13-105 the state after
\* completed->idle is the initial state: nothing is pending either.
C9_NewDownloadResets ==
    /\ [][(appState = "completed" /\ appState' = "idle") => InitialValues']_vars
    /\ [](appVersion = "app1" /\ appState = "idle"
            => InitialValues /\ calls = << >> /\ loops = << >> /\ timers = << >>)

C9_Witness ==
    /\ appVersion = "app1" /\ appState = "idle" /\ downloads > 0 /\ lastUrl # ""
    /\ currentUrl = "" /\ videoInfo = NullInfo /\ downloadProgress = NullProgress

\* C10: in App.tsx lines 13-105, whenever appState is 'error' currentUrl is the
\* non-empty url of the most recent submission, and 'error' is left only by Try
\* Again restarting the analysis of that url with error cleared and videoInfo
\* null, never for 'idle'.
C10_RetryRestartsAnalysis ==
    /\ [](appVersion = "app1" /\ appState = "error"
            => currentUrl # "" /\ currentUrl = lastUrl)
    /\ [][(appVersion = "app1" /\ appState = "error" /\ appState' # "error") =>
            /\ appState' = "analyzing"
            /\ error' = ""
            /\ videoInfo' = NullInfo
            /\ currentUrl' = currentUrl
            /\ calls' = << Call(currentUrl, 0) >>]_vars

C10_Witness ==
    /\ appVersion = "app1" /\ appState = "analyzing" /\ submits = 2 /\ downloads = 0
    /\ error = "" /\ videoInfo = NullInfo /\ calls = << Call(currentUrl, 0) >> /\ currentUrl = lastUrl

-----------------------------------------------------------------------------
(* Further claims about analyzeVideo, under SpecAnalyzer                   *)

C12_FormatsNonEmpty ==
    (analyzer = "p4" /\ run.done /\ run.result.outcome = "resolve")
        => Len(run.result.info.formats) > 0

-----------------------------------------------------------------------------
(* Claims about the backend-list analyzers, under SpecBackendList          *)

\* The answer of an endpoint is accepted and transformed
EndpointAnswered(version, endpoint, env, url) ==
    LET r == env[endpoint] IN
    /\ r.kind = "json"
    /\ HasRequiredFields(version, r.data)
    /\ ~transformListResponse(version, r.data, url, endpoint).threw

\* C13: the backend-list analyzers contact the backends one at a time in list
\* order; backend k+1 only after backend k answered non-OK, threw, or sent data
\* without the required fields; and once an answer is accepted and transformed it
\* is returned and no later backend is contacted.
C13_BackendsInListOrder ==
    run.done =>
        LET log == run.result.contacted
            endpoints == backendEndpoints(analyzer)
            n == Cardinality({k \in 1..Len(log) : log[k] # "oembed"})
        IN /\ n <= Len(endpoints)
           /\ \A k \in 1..n : log[k] = endpoints[k]
           /\ \A k \in 1..Len(log) : log[k] = "oembed" => k = Len(log) /\ n = Len(endpoints)
           /\ \A k \in 2..n : ~EndpointAnswered(analyzer, endpoints[k - 1], run.env, run.url)
           /\ \A k \in 1..Len(endpoints) :
                 (/\ Supported(run.url)
                  /\ EndpointAnswered(analyzer, endpoints[k], run.env, run.url)
                  /\ \A j \in 1..(k - 1) :
                        ~EndpointAnswered(analyzer, endpoints[j], run.env, run.url))
                 => /\ log = SubSeq(endpoints, 1, k)
                    /\ run.result.outcome = "resolve"
                    /\ run.result.info =
                         transformListResponse(analyzer, run.env[endpoints[k]].data,
                                               run.url, endpoints[k]).info
           /\ (Supported(run.url) /\ n < Len(endpoints)) =>
                 EndpointAnswered(analyzer, endpoints[n], run.env, run.url)

C13_Witness ==
    /\ analyzer = "list2" /\ run.done /\ run.url = U_vimeo
    /\ run.env.railway.kind = "status"
    /\ run.env.cobalt.kind = "json" /\ run.env.cobalt.data = DCobaltText
    /\ run.result.contacted = << "railway", "cobalt" >>
    /\ run.result.outcome = "resolve"

AllBackendsFailed(version, env, url) ==
    \A k \in 1..Len(backendEndpoints(version)) :
        ~EndpointAnswered(version, backendEndpoints(version)[k], env, url)

\* C14: in the analyzer of part_003 lines 3-97, when every backend fails, a
\* YouTube url with an extractable video id resolves with demo VideoInfo (platform
\* 'YouTube', apiData.demoMode true, four formats without downloadUrl) whatever
\* oEmbed answers, and a url holding neither 'youtube.com' nor 'youtu.be' rejects
\* with 'Unable to connect to video download services. Please try again later.'.
C14_AllBackendsFailed ==
    (analyzer = "list1" /\ run.done /\ Supported(run.url)
       /\ AllBackendsFailed("list1", run.env, run.url)) =>
        /\ (UrlIncludesYouTube(run.url) /\ extractYouTubeVideoId(run.url) # "") =>
              /\ run.result.outcome = "resolve"
              /\ run.result.info.platform = "YouTube"
              /\ run.result.info.apiData.demoMode
              /\ Len(run.result.info.formats) = 4
              /\ \A i \in 1..4 : /\ ~Truthy(run.result.info.formats[i].downloadUrl)
                                 /\ run.result.info.formats[i].demoMode
        /\ ~UrlIncludesYouTube(run.url) =>
              /\ run.result.outcome = "reject"
              /\ run.result.message = MsgUnableToConnect

C14_Witness ==
    /\ analyzer = "list1" /\ run.done /\ run.url = U_yt
    /\ AllBackendsFailed("list1", run.env, run.url)
    /\ run.env.oembed.kind = "networkError"
    /\ run.result.outcome = "resolve" /\ run.result.info.apiData.demoMode
    /\ run.result.contacted = << "cobalt", "railway", "oembed" >>

-----------------------------------------------------------------------------
(* Claims about the progress of the App, under specifications with fairness *)

\* C15: every analysis eventually settles: each request of analyzeVideo of
\* part_004 is bounded by its timeout, so even when no backend answers the App
\* eventually leaves 'analyzing' for 'ready' or 'error'.
C15_AnalysisSettles ==
    (appState = "analyzing") ~> (appState \in {"ready", "error"})

C15_Witness ==
    /\ appState = "ready"
    /\ run.env.health = TimedOut /\ run.env.railway = TimedOut
    /\ run.env.cobalt = TimedOut /\ run.env.oembed = TimedOut
    /\ videoInfo # NullInfo /\ videoInfo.apiData.demoMode

\* The most updateProgress calls one run of the progress loop can make
MaxUpdates(version) == LoopCap(version) \div 5 + 1

\* C16: the simulated download terminates: a progress loop makes at most 21
\* updates (19 when capped at 90), the one it is waiting to make included, and
\* 'downloading' is always eventually followed by 'completed' or 'error'.
C16_DownloadTerminates ==
    /\ [](\A m \in 1..Len(loops) : loops[m].updates + 1 <= MaxUpdates(appVersion))
    /\ (appState = "downloading") ~> (appState \in {"completed", "error"})

C16_Witness ==
    /\ appState = "downloading"
    /\ \E m \in 1..Len(loops) : loops[m].updates + 1 = MaxUpdates(appVersion)

-----------------------------------------------------------------------------
(* Claims about the catch block of handleDownload, checked under Spec       *)

\* handleDownload's catch block was the last to set appState
EndedInCatch == appState = "error" /\ error = CatchMessage(appVersion)

\* C17: once the catch block of handleDownload has put the App in 'error', the
\* completion timer set in the try block does not fire: appState does not go
\* from that 'error' to 'completed'.
C17_NoCompletionAfterCatch ==
    [][EndedInCatch => appState' # "completed"]_vars

-----------------------------------------------------------------------------
(* Claims about the App of App.tsx lines 13-105 with the analyzer of        *)
(* videoAnalyzer.ts, checked under SpecAppTsx                                *)

OfType(formats, type) == { j \in 1..Len(formats) : formats[j].type = type }

\* Three video formats and one audio format, each with a real download URL
FourRealFormats(formats) ==
    /\ Len(formats) = 4
    /\ Cardinality(OfType(formats, "video")) = 3
    /\ Cardinality(OfType(formats, "audio")) = 1
    /\ \A j \in 1..Len(formats) :
         Truthy(formats[j].downloadUrl) /\ formats[j].downloadUrl # DemoHash

\* C18: with the mock analyzer every valid supported URL resolves with exactly
\* four formats (three video, one audio) whose downloadUrl is neither empty nor
\* '#demo'; so a click on a format in 'ready' leads to 'downloading' and the
\* demo message of handleDownload is never shown.
C18_MockFormatsDownloadable ==
    /\ [](\A u \in Urls :
            isValidUrl(u) /\ isSupportedPlatform(u) =>
              \A o \in Outcomes["mock", u] :
                o.outcome = "resolve" /\ FourRealFormats(o.info.formats))
    /\ [](analyzer = "mock" /\ appState = "ready" => FourRealFormats(videoInfo.formats))
    /\ [](analyzer = "mock" => error # MsgDemoApp1)
    /\ [][analyzer = "mock" /\ justClicked' # NoFormat => appState' = "downloading"]_vars

C18_Witness ==
    /\ analyzer = "mock"
    /\ appState = "downloading"
    /\ justClicked.type = "audio"
    /\ justClicked = videoInfo.formats[4]

====
